---- MODULE Spec2Model ----
(***************************************************************************)
(* Asynchronous download-job tracking of the Delineate download service.   *)
(*                                                                         *)
(*   src/src/downloadJob.ts           jobs, createJob, processJob          *)
(*   src/src/routes/downloadRoutes.ts initiateRoute, statusRoute,          *)
(*                                    resultRoute                          *)
(*   src/src/index.ts                 the handler mounted on               *)
(*                                    POST /v1/download/initiate           *)
(*                                                                         *)
(* The host runtime is a single-threaded event loop: one action is one     *)
(* run-to-completion step (a request handler, or the continuation of a     *)
(* runner after its timer has fired).                                      *)
(***************************************************************************)
EXTENDS Integers, Sequences, FiniteSets, TLC

(* ------------------------------ bounds --------------------------------- *)

\* records the store may hold
MaxJobs == 2
\* length of a file_ids array sent by a client
MaxLen == 2
\* how many file ids above the smallest one index.ts accepts are in play
NumFileIds == 1
\* values the process draws from randomUUID
MaxUUID == 4
\* requests the dashboard's API client has outstanding or settled
MaxRequests == 2
\* times one request is sent again before the model stops following it
MaxResends == 4
\* downloads the dashboard user starts
MaxDownloads == 2
\* largest value, in milliseconds, of the two delay settings
MaxDelay == 2
\* Math.random() is one of 0/RandomSteps .. (RandomSteps-1)/RandomSteps
RandomSteps == 3
\* SIGTERM / SIGINT signals the process receives
MaxSignals == 2

(* ------------------------- program constants --------------------------- *)

MinFileId == 10000
MaxFileId == 100000000
MaxFileIdsPerRequest == 1000

\* frontend/src/lib/api.ts
MAX_RETRIES == 3
RETRY_DELAY == 1000

\* file ids a client may send: one below the range of index.ts, the rest in it
FileIds == (MinFileId - 1) .. (MinFileId - 1 + NumFileIds)

\* job ids a client may poll: every UUID the process can draw
UUIDs == 1 .. MaxUUID

\* the request bodies a client may send (arrays of numbers, possibly empty,
\* possibly naming a file id twice)
Bodies == UNION {[1 .. n -> FileIds] : n \in 0 .. MaxLen}

VARIABLES
    jobs,       \* downloadJob.ts `jobs`: jobId -> DownloadJob
    runners,    \* the processJob invocations started so far, in start order
    issued,     \* how many values randomUUID has returned in this process
    response,   \* the response of the last request handled
    retryCount, \* api.ts `retryCount`, one counter for the whole client
    requests,   \* the requests made through the axios instance `api`
    dmFileId,           \* DownloadManager state `fileId`
    dmIsInitiating,     \* DownloadManager state `isInitiating`
    dmJobs,             \* DownloadManager state `jobs`: job id -> displayed status
    dmIntervalMap,      \* DownloadManager state `jobPollingIntervals` (its keys)
    dmInitiateClosure,  \* `jobPollingIntervals` as closed over by the current initiateDownload
    dmTimers,           \* the browser's live intervals: job id -> the map its callback closed over
    dmPending,          \* calls to the api module that have not settled
    dmAlert,            \* the message of the last alert() shown ("" for none)
    env,        \* index.ts `env`, the parsed environment
    health,     \* the GET /health request
    start,      \* the POST /v1/download/start request
    shutdown    \* the HTTP server, the OpenTelemetry SDK and the S3 client at shutdown

jobVars == <<jobs, runners, issued, response>>
apiVars == <<retryCount, requests>>
dmVars == <<dmFileId, dmIsInitiating, dmJobs, dmIntervalMap, dmInitiateClosure, dmTimers, dmPending,
           dmAlert>>
svcVars == <<env, health, start, shutdown>>
vars == <<jobVars, apiVars, dmVars, svcVars>>

\* what the steps of one part leave alone
notJobVars == <<apiVars, dmVars, svcVars>>
notApiVars == <<jobVars, dmVars, svcVars>>
notDmVars == <<jobVars, apiVars, svcVars>>
notSvcVars == <<jobVars, apiVars, dmVars>>

(* ------------------------------ helpers -------------------------------- *)

Range(s) == {s[k] : k \in DOMAIN s}

\* a JavaScript object with no own property
EmptyObject == [k \in {} |-> TRUE]

\* job.result is optional: `defined` is FALSE while the property is absent
NoResult == [defined |-> FALSE, entries |-> EmptyObject]

\* a generator that repeats itself
randomUUIDRepeat(n) == 1

\* randomUUID(): a value this process has not drawn before.  Which one is
\* immaterial, so the least unused one stands for it.
randomUUID(n) == n + 1

\* `https://storage.example.com/downloads/${String(fileId)}.zip?token=${token}`
DownloadUrl(fileId, token) == <<"https://storage.example.com/downloads/", fileId, ".zip?token=", token>>

(* ------------------------- downloadJob.ts ------------------------------ *)

\* createJob, the object literal: a job starts queued, with no result property
NewJob(jobId, fileIds) ==
    [jobId |-> jobId, fileIds |-> fileIds, status |-> "queued", result |-> NoResult]

\* the status is put back to queued between two file ids
processJobResumeRequeue(job, idx, available, token) ==
    LET fileId  == job.fileIds[idx]
        outcome == [available |-> available, downloadUrl |-> DownloadUrl(fileId, token)]
        entries == [k \in DOMAIN job.result.entries \cup {fileId} |->
                        IF k = fileId THEN outcome ELSE job.result.entries[k]]
    IN  [job EXCEPT !.result = [defined |-> TRUE, entries |-> entries],
                    !.status = IF idx = Len(job.fileIds) THEN "completed" ELSE "queued"]

\* the entry is written under the loop position instead of the file id
processJobResumeByIndex(job, idx, available, token) ==
    LET fileId  == job.fileIds[idx]
        outcome == [available |-> available, downloadUrl |-> DownloadUrl(fileId, token)]
        entries == [k \in DOMAIN job.result.entries \cup {idx} |->
                        IF k = idx THEN outcome ELSE job.result.entries[k]]
    IN  [job EXCEPT !.result = [defined |-> TRUE, entries |-> entries],
                    !.status = IF idx = Len(job.fileIds) THEN "completed" ELSE @]

\* the final assignment sits inside the loop: completed after every file id
processJobResumeEarly(job, idx, available, token) ==
    LET fileId  == job.fileIds[idx]
        outcome == [available |-> available, downloadUrl |-> DownloadUrl(fileId, token)]
        entries == [k \in DOMAIN job.result.entries \cup {fileId} |->
                        IF k = fileId THEN outcome ELSE job.result.entries[k]]
    IN  [job EXCEPT !.result = [defined |-> TRUE, entries |-> entries],
                    !.status = "completed"]

\* the loop walks fileIds from its end
processJobResumeReverse(job, idx, available, token) ==
    LET fileId  == job.fileIds[Len(job.fileIds) - idx + 1]
        outcome == [available |-> available, downloadUrl |-> DownloadUrl(fileId, token)]
        entries == [k \in DOMAIN job.result.entries \cup {fileId} |->
                        IF k = fileId THEN outcome ELSE job.result.entries[k]]
    IN  [job EXCEPT !.result = [defined |-> TRUE, entries |-> entries],
                    !.status = IF idx = Len(job.fileIds) THEN "completed" ELSE @]

\* the assignment after the loop is missing
processJobResumeStuck(job, idx, available, token) ==
    LET fileId  == job.fileIds[idx]
        outcome == [available |-> available, downloadUrl |-> DownloadUrl(fileId, token)]
        entries == [k \in DOMAIN job.result.entries \cup {fileId} |->
                        IF k = fileId THEN outcome ELSE job.result.entries[k]]
    IN  [job EXCEPT !.result = [defined |-> TRUE, entries |-> entries]]

\* a job whose last file id is unavailable ends as failed
processJobResumeFailed(job, idx, available, token) ==
    LET fileId  == job.fileIds[idx]
        outcome == [available |-> available, downloadUrl |-> DownloadUrl(fileId, token)]
        entries == [k \in DOMAIN job.result.entries \cup {fileId} |->
                        IF k = fileId THEN outcome ELSE job.result.entries[k]]
    IN  [job EXCEPT !.result = [defined |-> TRUE, entries |-> entries],
                    !.status = IF idx = Len(job.fileIds)
                                   THEN (IF available THEN "completed" ELSE "failed")
                                   ELSE @]

\* job.result is assigned a fresh object on every iteration
processJobResumeReplace(job, idx, available, token) ==
    LET fileId  == job.fileIds[idx]
        outcome == [available |-> available, downloadUrl |-> DownloadUrl(fileId, token)]
    IN  [job EXCEPT !.result = [defined |-> TRUE, entries |-> [k \in {fileId} |-> outcome]],
                    !.status = IF idx = Len(job.fileIds) THEN "completed" ELSE @]

\* processJob from the resumption after the delay of fileIds[idx] to the next
\* suspension (or the end): job.result ??= {}, the entry of the file id is
\* written, and after the last file id the status becomes completed.
processJobResume(job, idx, available, token) ==
    LET fileId  == job.fileIds[idx]
        outcome == [available |-> available, downloadUrl |-> DownloadUrl(fileId, token)]
        entries == [k \in DOMAIN job.result.entries \cup {fileId} |->
                        IF k = fileId THEN outcome ELSE job.result.entries[k]]
    IN  [job EXCEPT !.result = [defined |-> TRUE, entries |-> entries],
                    !.status = IF idx = Len(job.fileIds) THEN "completed" ELSE @]

\* the loop does not end after the last file id: its delay is awaited again
RunnerResumeNoStop(job, r) ==
    IF r.idx = Len(job.fileIds)
        THEN r
        ELSE [r EXCEPT !.idx = @ + 1]

\* the same invocation after that step
RunnerResume(job, r) ==
    IF r.idx = Len(job.fileIds)
        THEN [r EXCEPT !.pc = "done"]
        ELSE [r EXCEPT !.idx = @ + 1]

\* the delay is awaited after the entry is written instead of before: the
\* first file id is processed inside createJob
processJobStartWorkFirst(job) ==
    IF Len(job.fileIds) = 0
        THEN [job EXCEPT !.status = "completed"]
        ELSE processJobResume([job EXCEPT !.status = "processing"], 1, TRUE, 0)

\* processJob does not run inside createJob at all: the record is stored as
\* the literal left it
processJobStartDeferred(job) == job

\* processJob up to its first suspension.  An async function runs
\* synchronously until its first await, so this part runs inside createJob:
\* the status is set, and the loop either suspends on the delay of the first
\* file id or, for an empty array, falls through to the final assignment.
processJobStart(job) ==
    [job EXCEPT !.status = IF Len(job.fileIds) = 0 THEN "completed" ELSE "processing"]

\* the invocation of processJob that createJob leaves behind: which job
\* object it holds, which position of fileIds its timer is pending for
NewRunner(job) ==
    [job |-> job.jobId,
     idx |-> 1,
     pc  |-> IF Len(job.fileIds) = 0 THEN "done" ELSE "await"]

\* the runner writes the job created last instead of the one it was called with
RunnerJobLatest(rs, r) == rs[Len(rs)].job

\* the `job` parameter of the processJob invocation r
RunnerJob(rs, r) == rs[r].job

\* processJob is called twice
processJobCallTwice(rs, job) == Append(Append(rs, NewRunner(job)), NewRunner(job))

\* createJob: void processJob(job)
processJobCall(rs, job) == Append(rs, NewRunner(job))

\* the map is rebuilt on every insertion
JobsSetEvict(store, jobId, job) == [k \in {jobId} |-> job]

\* jobs.set(jobId, job)
JobsSet(store, jobId, job) ==
    [k \in DOMAIN store \cup {jobId} |-> IF k = jobId THEN job ELSE store[k]]

\* randomUUID draws still to come from the runners that are suspended
RECURSIVE PendingDraws(_)
PendingDraws(rs) ==
    IF rs = <<>> THEN 0
    ELSE (IF Head(rs).pc = "await" THEN Len(jobs[Head(rs).job].fileIds) - Head(rs).idx + 1 ELSE 0)
         + PendingDraws(Tail(rs))

(* ---------------------- request validation ----------------------------- *)

\* the schema without .min(1)
InitiateBodySchemaNoMin(file_ids) == Len(file_ids) >= 0

\* downloadRoutes.ts: z.object({ file_ids: z.array(z.number()).min(1) })
InitiateBodySchema(file_ids) == Len(file_ids) >= 1

\* index.ts DownloadInitiateRequestSchema:
\* z.array(z.number().int().min(10000).max(100000000)).min(1).max(1000)
DownloadInitiateRequestSchema(file_ids) ==
    /\ Len(file_ids) >= 1
    /\ Len(file_ids) <= MaxFileIdsPerRequest
    /\ \A k \in DOMAIN file_ids : file_ids[k] >= MinFileId /\ file_ids[k] <= MaxFileId

\* the validator's answer to a body the schema rejects
InvalidRequest(route, file_ids) ==
    [route |-> route, request |-> Len(file_ids), code |-> 400, body |-> [success |-> FALSE]]

(* ------------------------------ state ---------------------------------- *)

\* `response` keeps, next to the status code and the JSON body, the route
\* that answered and what the client sent (the length of the file_ids
\* array, or the :jobId parameter)
JobInit ==
    /\ jobs = EmptyObject
    /\ runners = <<>>
    /\ issued = 0
    /\ response = [route |-> "none", request |-> 0, code |-> 0, body |-> EmptyObject]

\* api.ts at module load: `let retryCount = 0`, no request made yet
ApiInit ==
    /\ retryCount = 0
    /\ requests = [q \in 1 .. MaxRequests |->
                      [state |-> "unsent", resends |-> 0, delay |-> 0, status |-> 0]]

\* DownloadManager at its first render
DmInit ==
    /\ dmFileId = ""
    /\ dmIsInitiating = FALSE
    /\ dmJobs = EmptyObject
    /\ dmIntervalMap = {}
    /\ dmInitiateClosure = {}
    /\ dmTimers = EmptyObject
    /\ dmPending = {}
    /\ dmAlert = ""

\* no request to /health or /v1/download/start has arrived
SvcIdle ==
    /\ health = [pc |-> "idle"]
    /\ start = [pc |-> "idle"]
    /\ shutdown = [server |-> "listening", signals |-> <<>>, closeCallbacks |-> 0,
                   otelStarted |-> 0, otelSettled |-> 0, otelFailed |-> 0,
                   finallyDue |-> 0, s3Destroyed |-> 0]

\* EnvSchema defaults, scaled to MaxDelay: no bucket, the delay enabled
DefaultEnv ==
    [S3_BUCKET_NAME |-> "", DOWNLOAD_DELAY_ENABLED |-> TRUE,
     DOWNLOAD_DELAY_MIN_MS |-> 0, DOWNLOAD_DELAY_MAX_MS |-> MaxDelay]

Init == JobInit /\ ApiInit /\ DmInit /\ SvcIdle /\ env = DefaultEnv

(* ------------------------- downloadRoutes.ts --------------------------- *)

\* createJob(fileIds): the record as it is stored and returned
createJob(jobId, fileIds) == processJobStart(NewJob(jobId, fileIds))

\* initiateRoute handler: c.json({ jobId: job.jobId, status: job.status })
initiateRouteHandler(job, file_ids) ==
    [route |-> "initiate", request |-> Len(file_ids), code |-> 200,
     body |-> [jobId |-> job.jobId, status |-> job.status]]

\* the handler without `if (!job) return ...`: job.status throws on
\* undefined and the framework answers 500
statusRouteHandlerNoCheck(store, jobId) ==
    IF jobId \notin DOMAIN store
    THEN [route |-> "status", request |-> jobId, code |-> 500,
          body |-> [error |-> "Internal Server Error"]]
    ELSE [route |-> "status", request |-> jobId, code |-> 200,
          body |-> [jobId |-> jobId, status |-> store[jobId].status]]

\* statusRoute handler
statusRouteHandler(store, jobId) ==
    IF jobId \notin DOMAIN store
    THEN [route |-> "status", request |-> jobId, code |-> 404,
          body |-> [error |-> "Job not found"]]
    ELSE [route |-> "status", request |-> jobId, code |-> 200,
          body |-> [jobId |-> jobId, status |-> store[jobId].status]]

\* resultRoute handler
resultRouteHandler(store, jobId) ==
    IF jobId \notin DOMAIN store
    THEN [route |-> "result", request |-> jobId, code |-> 404,
          body |-> [error |-> "Job not found"]]
    ELSE [route |-> "result", request |-> jobId, code |-> 200,
          body |-> [jobId |-> jobId, status |-> store[jobId].status,
                    result |-> store[jobId].result]]

\* POST /v1/download/initiate, downloadRoutes.ts
InitiateRoute(file_ids) ==
    /\ IF ~InitiateBodySchema(file_ids)
       THEN /\ response' = InvalidRequest("initiate", file_ids)
            /\ UNCHANGED <<jobs, runners, issued>>
       ELSE /\ Cardinality(DOMAIN jobs) < MaxJobs
            /\ issued + 1 + Len(file_ids) + PendingDraws(runners) <= MaxUUID
            /\ LET jobId == randomUUID(issued)
                   job   == createJob(jobId, file_ids)
               IN  /\ jobs' = JobsSet(jobs, jobId, job)
                   /\ runners' = processJobCall(runners, job)
                   /\ issued' = issued + 1
                   /\ response' = initiateRouteHandler(job, file_ids)
    /\ UNCHANGED notJobVars

\* a completed job is dropped from the store once its status has been read
StatusRouteEvict(jobId) ==
    /\ response' = statusRouteHandler(jobs, jobId)
    /\ jobs' = IF jobId \in DOMAIN jobs /\ jobs[jobId].status = "completed"
               THEN [k \in DOMAIN jobs \ {jobId} |-> jobs[k]]
               ELSE jobs
    /\ UNCHANGED <<runners, issued, notJobVars>>

\* GET /v1/download/status/:jobId
StatusRoute(jobId) ==
    /\ response' = statusRouteHandler(jobs, jobId)
    /\ UNCHANGED <<jobs, runners, issued, notJobVars>>

\* GET /v1/download/:jobId
ResultRoute(jobId) ==
    /\ response' = resultRouteHandler(jobs, jobId)
    /\ UNCHANGED <<jobs, runners, issued, notJobVars>>

\* the delay timer of runner r fires and processJob runs on to its next
\* suspension.  The delay is 1000..5999 ms, so runs of fewer than six timer
\* steps of different jobs can happen in any order.
TimerFires(r, available) ==
    /\ runners[r].pc = "await"
    /\ RunnerJob(runners, r) \in DOMAIN jobs
    /\ issued < MaxUUID
    /\ LET jobId == RunnerJob(runners, r)
           token == randomUUID(issued)
       IN  /\ jobs' = [jobs EXCEPT ![jobId] = processJobResume(@, runners[r].idx, available, token)]
           /\ runners' = [runners EXCEPT ![r] = RunnerResume(jobs[jobId], @)]
           /\ issued' = issued + 1
    /\ UNCHANGED <<response, notJobVars>>

(* ------------------------------ index.ts ------------------------------- *)

\* the handler index.ts mounts on POST /v1/download/initiate: a job id is
\* drawn and answered with the literal status "queued"
downloadInitiateHandler(jobId, file_ids) ==
    [route |-> "downloadInitiate", request |-> Len(file_ids), code |-> 200,
     body |-> [jobId |-> jobId, status |-> "queued", totalFileIds |-> Len(file_ids)]]

\* POST /v1/download/initiate, index.ts: nothing is stored or started
DownloadInitiate(file_ids) ==
    /\ IF ~DownloadInitiateRequestSchema(file_ids)
       THEN /\ response' = InvalidRequest("downloadInitiate", file_ids)
            /\ UNCHANGED <<jobs, runners, issued>>
       ELSE /\ issued + 1 + PendingDraws(runners) <= MaxUUID
            /\ response' = downloadInitiateHandler(randomUUID(issued), file_ids)
            /\ issued' = issued + 1
            /\ UNCHANGED <<jobs, runners>>
    /\ UNCHANGED notJobVars

\* POST /v1/download/cancel/:jobId, the request of the dashboard's
\* apiService.cancelDownload: the service mounts no such route, so the
\* framework answers 404 and nothing else happens
CancelRequest(jobId) ==
    /\ response' = [route |-> "cancel", request |-> jobId, code |-> 404,
                    body |-> [error |-> "404 Not Found"]]
    /\ UNCHANGED <<jobs, runners, issued, notJobVars>>

Next ==
    \/ \E file_ids \in Bodies : InitiateRoute(file_ids)
    \/ \E jobId \in UUIDs : StatusRoute(jobId)
    \/ \E jobId \in UUIDs : ResultRoute(jobId)
    \/ \E r \in DOMAIN runners, available \in BOOLEAN : TimerFires(r, available)
    \/ \E file_ids \in Bodies : DownloadInitiate(file_ids)
    \/ \E jobId \in UUIDs : CancelRequest(jobId)

Spec == Init /\ [][Next]_vars

\* the timer of runner r, whatever the availability drawn
TimerStep(r) == r \in DOMAIN runners /\ \E available \in BOOLEAN : TimerFires(r, available)

\* every delay timer that is pending eventually fires
FairSpec == Spec /\ \A r \in 1 .. MaxJobs + 1 : WF_vars(TimerStep(r))

(* ----------------------- frontend/src/lib/api.ts ------------------------ *)

\* what a failed request carries: an HTTP status, or 0 when no response was
\* received (network error, client timeout)
ErrorStatuses == {0, 404, 429, 500, 503, 504}

\* every error that came with a response is retried
ShouldRetryAnyResponse(count, status) ==
    /\ count < MAX_RETRIES
    /\ status # 0

\* the error interceptor's condition for sending the request again
ShouldRetry(count, status) ==
    /\ count < MAX_RETRIES
    /\ status # 0
    /\ status \in {429, 503, 504}

\* RETRY_DELAY * Math.pow(2, retryCount - 1), with the counter as incremented
BackoffDelay(count) == RETRY_DELAY * 2 ^ (count - 1)

\* a caller makes request q through `api`
ApiSend(q) ==
    /\ requests[q].state = "unsent"
    /\ requests' = [requests EXCEPT ![q].state = "inflight"]
    /\ UNCHANGED <<retryCount, notApiVars>>

\* the success interceptor: the counter is reset and the response handed on
ApiResponse(q) ==
    /\ requests[q].state = "inflight"
    /\ retryCount' = 0
    /\ requests' = [requests EXCEPT ![q].state = "resolved"]
    /\ UNCHANGED notApiVars

\* the error interceptor: either the counter is incremented and the backoff
\* delay awaited, or the error is rejected to the caller.  `status` keeps
\* error.response.status of the request's last failure (0: no response).
ApiError(q, status) ==
    /\ requests[q].state = "inflight"
    /\ IF ShouldRetry(retryCount, status)
       THEN /\ requests[q].resends < MaxResends
            /\ retryCount' = retryCount + 1
            /\ requests' = [requests EXCEPT ![q].state = "backoff",
                                            ![q].delay = BackoffDelay(retryCount + 1),
                                            ![q].status = status]
       ELSE /\ requests' = [requests EXCEPT ![q].state = "rejected", ![q].status = status]
            /\ UNCHANGED retryCount
    /\ UNCHANGED notApiVars

\* the backoff delay of q has elapsed: `return api(config)` sends it again
ApiRetry(q) ==
    /\ requests[q].state = "backoff"
    /\ requests' = [requests EXCEPT ![q].state = "inflight", ![q].resends = @ + 1]
    /\ UNCHANGED <<retryCount, notApiVars>>

ApiNext ==
    \/ \E q \in 1 .. MaxRequests : ApiSend(q)
    \/ \E q \in 1 .. MaxRequests : ApiResponse(q)
    \/ \E q \in 1 .. MaxRequests, status \in ErrorStatuses : ApiError(q, status)
    \/ \E q \in 1 .. MaxRequests : ApiRetry(q)

ApiSpec == Init /\ [][ApiNext]_vars

(* -------------- frontend/src/components/DownloadManager.tsx ------------- *)

\* Each call the component makes on the api module (initiateDownload,
\* getDownloadStatus, cancelDownload) is a request in flight that either
\* resolves with the backend's answer or rejects.

\* the statuses a status poll may report
PollStatuses == {"processing", "completed", "failed", "cancelled"}

\* the statuses at which pollJobStatus cleans up
PollTerminal == {"completed", "failed", "cancelled"}

\* a map without the entry of key j
MapDelete(map, j) == [k \in DOMAIN map \ {j} |-> map[k]]

\* a map with the entry j -> v
MapSet(map, j, v) == [k \in DOMAIN map \cup {j} |-> IF k = j THEN v ELSE map[k]]

\* the user edits the input: setFileId re-renders, and initiateDownload
\* (useCallback on [fileId]) is rebuilt over this render's pollJobStatus,
\* which holds this render's jobPollingIntervals
DmSetFileId(v) ==
    /\ ~dmIsInitiating
    /\ v # dmFileId
    /\ dmFileId' = v
    /\ dmInitiateClosure' = dmIntervalMap
    /\ UNCHANGED <<dmIsInitiating, dmJobs, dmIntervalMap, dmTimers, dmPending, dmAlert, notDmVars>>

\* initiateDownload up to `await api.initiateDownload(fileId)`
DmInitiateClick ==
    /\ dmFileId # ""
    /\ ~dmIsInitiating
    /\ Cardinality(DOMAIN dmJobs) < MaxDownloads
    /\ dmIsInitiating' = TRUE
    /\ dmPending' = dmPending \cup {[kind |-> "initiate", job |-> 0, closure |-> dmInitiateClosure]}
    /\ UNCHANGED <<dmFileId, dmJobs, dmIntervalMap, dmInitiateClosure, dmTimers, dmAlert, notDmVars>>

\* initiateDownload after the call resolved with a job id: the job is
\* listed, the input cleared, the interval started with the pollJobStatus the
\* callback closed over, and the interval recorded in jobPollingIntervals.
\* The backend's job id is a fresh UUID; which one is immaterial, so the
\* least id not yet listed stands for it.
DmInitiateResolved(p, jobId) ==
    /\ p \in dmPending /\ p.kind = "initiate"
    /\ jobId = Cardinality(DOMAIN dmJobs) + 1
    /\ dmJobs' = MapSet(dmJobs, jobId, "processing")
    /\ dmFileId' = ""
    /\ dmTimers' = MapSet(dmTimers, jobId, p.closure)
    /\ dmIntervalMap' = dmIntervalMap \cup {jobId}
    /\ dmInitiateClosure' = dmIntervalMap \cup {jobId}
    /\ dmIsInitiating' = FALSE
    /\ dmPending' = dmPending \ {p}
    /\ UNCHANGED <<dmAlert, notDmVars>>

\* initiateDownload after the call rejected: alert, and the finally block
DmInitiateRejected(p) ==
    /\ p \in dmPending /\ p.kind = "initiate"
    /\ dmAlert' = "Failed to initiate download"
    /\ dmIsInitiating' = FALSE
    /\ dmPending' = dmPending \ {p}
    /\ UNCHANGED <<dmFileId, dmJobs, dmIntervalMap, dmInitiateClosure, dmTimers, notDmVars>>

\* the interval of job j fires: pollJobStatus up to `await
\* api.getDownloadStatus(jobId)`.  One status request per job is followed.
DmPollTick(j) ==
    /\ j \in DOMAIN dmTimers
    /\ \A p \in dmPending : ~(p.kind = "status" /\ p.job = j)
    /\ dmPending' = dmPending \cup {[kind |-> "status", job |-> j, closure |-> dmTimers[j]]}
    /\ UNCHANGED <<dmFileId, dmIsInitiating, dmJobs, dmIntervalMap, dmInitiateClosure, dmTimers, dmAlert, notDmVars>>

\* pollJobStatus after the status call resolved: the job is updated, and on
\* a terminal status the interval found in the closed-over map is cleared
\* and deleted from jobPollingIntervals
DmPollResolved(p, status) ==
    /\ p \in dmPending /\ p.kind = "status"
    /\ dmJobs' = [k \in DOMAIN dmJobs |-> IF k = p.job THEN status ELSE dmJobs[k]]
    /\ IF status \in PollTerminal /\ p.job \in p.closure
       THEN /\ dmTimers' = MapDelete(dmTimers, p.job)
            /\ dmIntervalMap' = dmIntervalMap \ {p.job}
       ELSE UNCHANGED <<dmTimers, dmIntervalMap>>
    /\ dmPending' = dmPending \ {p}
    /\ UNCHANGED <<dmFileId, dmIsInitiating, dmInitiateClosure, dmAlert, notDmVars>>

\* pollJobStatus after the status call rejected: logged, nothing else
DmPollRejected(p) ==
    /\ p \in dmPending /\ p.kind = "status"
    /\ dmPending' = dmPending \ {p}
    /\ UNCHANGED <<dmFileId, dmIsInitiating, dmJobs, dmIntervalMap, dmInitiateClosure, dmTimers, dmAlert, notDmVars>>

\* the Cancel button of a job shown as processing: cancelDownload
\* (useCallback on [jobPollingIntervals]) up to `await api.cancelDownload`
DmCancelClick(j) ==
    /\ j \in DOMAIN dmJobs /\ dmJobs[j] = "processing"
    /\ \A p \in dmPending : ~(p.kind = "cancel" /\ p.job = j)
    /\ dmPending' = dmPending \cup {[kind |-> "cancel", job |-> j, closure |-> dmIntervalMap]}
    /\ UNCHANGED <<dmFileId, dmIsInitiating, dmJobs, dmIntervalMap, dmInitiateClosure, dmTimers, dmAlert, notDmVars>>

\* cancelDownload after the cancel call resolved
DmCancelResolved(p) ==
    /\ p \in dmPending /\ p.kind = "cancel"
    /\ IF p.job \in p.closure
       THEN /\ dmTimers' = MapDelete(dmTimers, p.job)
            /\ dmIntervalMap' = dmIntervalMap \ {p.job}
       ELSE UNCHANGED <<dmTimers, dmIntervalMap>>
    /\ dmJobs' = [k \in DOMAIN dmJobs |-> IF k = p.job THEN "cancelled" ELSE dmJobs[k]]
    /\ dmPending' = dmPending \ {p}
    /\ UNCHANGED <<dmFileId, dmIsInitiating, dmInitiateClosure, dmAlert, notDmVars>>

\* the job is marked cancelled and its interval cleared whether or not the
\* backend accepted the cancellation
DmCancelRejectedAnyway(p) ==
    /\ p \in dmPending /\ p.kind = "cancel"
    /\ dmAlert' = "Failed to cancel download"
    /\ dmTimers' = MapDelete(dmTimers, p.job)
    /\ dmIntervalMap' = dmIntervalMap \ {p.job}
    /\ dmJobs' = [k \in DOMAIN dmJobs |-> IF k = p.job THEN "cancelled" ELSE dmJobs[k]]
    /\ dmPending' = dmPending \ {p}
    /\ UNCHANGED <<dmFileId, dmIsInitiating, dmInitiateClosure, notDmVars>>

\* cancelDownload after the cancel call rejected: alert, nothing else
DmCancelRejected(p) ==
    /\ p \in dmPending /\ p.kind = "cancel"
    /\ dmAlert' = "Failed to cancel download"
    /\ dmPending' = dmPending \ {p}
    /\ UNCHANGED <<dmFileId, dmIsInitiating, dmJobs, dmIntervalMap, dmInitiateClosure, dmTimers, notDmVars>>

DmNext ==
    \/ \E v \in {"", "70000"} : DmSetFileId(v)
    \/ DmInitiateClick
    \/ \E p \in dmPending, jobId \in 1 .. MaxDownloads : DmInitiateResolved(p, jobId)
    \/ \E p \in dmPending : DmInitiateRejected(p)
    \/ \E j \in 1 .. MaxDownloads : DmPollTick(j)
    \/ \E p \in dmPending, status \in PollStatuses : DmPollResolved(p, status)
    \/ \E p \in dmPending : DmPollRejected(p)
    \/ \E j \in 1 .. MaxDownloads : DmCancelClick(j)
    \/ \E p \in dmPending : DmCancelResolved(p)
    \/ \E p \in dmPending : DmCancelRejected(p)

DmSpec == Init /\ [][DmNext]_vars

(* ------------------- index.ts: /health and /v1/download/start ----------- *)

\* null and a present value, for nullable fields
Null == <<>>
Some(v) == <<v>>

\* the environments the service may run in: with or without a bucket, the
\* delay enabled or not, and the two delay settings anywhere in 0 .. MaxDelay
\* (EnvSchema does not order them)
Envs ==
    [S3_BUCKET_NAME : {"", "downloads-bucket"},
     DOWNLOAD_DELAY_ENABLED : BOOLEAN,
     DOWNLOAD_DELAY_MIN_MS : 0 .. MaxDelay,
     DOWNLOAD_DELAY_MAX_MS : 0 .. MaxDelay]

\* how s3Client.send(new HeadObjectCommand(..)) may end: with a response
\* (ContentLength present or not), or by throwing an Error of some name, or
\* by throwing a value that is not an Error
S3Outcomes ==
    {[ok |-> TRUE, isError |-> FALSE, name |-> "", contentLength |-> Some(2048)],
     [ok |-> TRUE, isError |-> FALSE, name |-> "", contentLength |-> Null]}
    \cup {[ok |-> FALSE, isError |-> TRUE, name |-> n, contentLength |-> Null] :
             n \in {"NotFound", "AccessDenied", "TimeoutError"}}
    \cup {[ok |-> FALSE, isError |-> FALSE, name |-> "NotFound", contentLength |-> Null]}

\* the file ids sent to /v1/download/start: below the accepted range, in it,
\* and in it and a multiple of 7
StartFileIds == {MinFileId - 1, MinFileId, MinFileId + 3}

\* DownloadStartRequestSchema: z.number().int().min(10000).max(100000000)
DownloadStartRequestSchema(file_id) == file_id >= MinFileId /\ file_id <= MaxFileId

\* every error counts as unhealthy, NotFound included
checkS3HealthStrict(e, outcome) ==
    IF e.S3_BUCKET_NAME = "" THEN TRUE ELSE outcome.ok

\* checkS3Health
checkS3Health(e, outcome) ==
    IF e.S3_BUCKET_NAME = "" THEN TRUE
    ELSE IF outcome.ok THEN TRUE
    ELSE IF outcome.isError /\ outcome.name = "NotFound" THEN TRUE
    ELSE FALSE

\* the /health handler's answer
healthHandler(storageHealthy) ==
    [code |-> IF storageHealthy THEN 200 ELSE 503,
     body |-> [status |-> IF storageHealthy THEN "healthy" ELSE "unhealthy",
               checks |-> [storage |-> IF storageHealthy THEN "ok" ELSE "error"]]]

\* sanitizeS3Key: Math.floor(Math.abs(fileId)) inside `downloads/<id>.zip`
sanitizeS3Key(fileId) ==
    <<"downloads/", IF fileId < 0 THEN 0 - fileId ELSE fileId, ".zip">>

\* checkS3Availability; k / RandomSteps is the value of Math.random()
checkS3Availability(e, fileId, outcome, k) ==
    IF e.S3_BUCKET_NAME = ""
    THEN LET available == fileId % 7 = 0
         IN  [available |-> available,
              s3Key |-> IF available THEN Some(sanitizeS3Key(fileId)) ELSE Null,
              size |-> IF available THEN Some((k * 10000000) \div RandomSteps + 1000) ELSE Null]
    ELSE IF outcome.ok
         THEN [available |-> TRUE, s3Key |-> Some(sanitizeS3Key(fileId)),
               size |-> outcome.contentLength]
         ELSE [available |-> FALSE, s3Key |-> Null, size |-> Null]

\* getRandomDelay; k / RandomSteps is the value of Math.random()
getRandomDelay(e, k) ==
    IF ~e.DOWNLOAD_DELAY_ENABLED THEN 0
    ELSE (k * (e.DOWNLOAD_DELAY_MAX_MS - e.DOWNLOAD_DELAY_MIN_MS + 1)) \div RandomSteps
         + e.DOWNLOAD_DELAY_MIN_MS

\* an unavailable file is answered 404
downloadStartHandlerNotFound(file_id, s3Result, processingTimeMs, token) ==
    IF s3Result.available
    THEN [code |-> 200,
          body |-> [file_id |-> file_id, status |-> "completed",
                    downloadUrl |-> Some(<<"https://storage.example.com/",
                                           IF s3Result.s3Key = Null THEN "" ELSE s3Result.s3Key[1],
                                           "?token=", token>>),
                    size |-> s3Result.size, processingTimeMs |-> processingTimeMs]]
    ELSE [code |-> 404,
          body |-> [file_id |-> file_id, status |-> "failed", downloadUrl |-> Null,
                    size |-> Null, processingTimeMs |-> processingTimeMs]]

\* the /v1/download/start handler's answer
downloadStartHandler(file_id, s3Result, processingTimeMs, token) ==
    IF s3Result.available
    THEN [code |-> 200,
          body |-> [file_id |-> file_id, status |-> "completed",
                    downloadUrl |-> Some(<<"https://storage.example.com/",
                                           IF s3Result.s3Key = Null THEN "" ELSE s3Result.s3Key[1],
                                           "?token=", token>>),
                    size |-> s3Result.size, processingTimeMs |-> processingTimeMs]]
    ELSE [code |-> 200,
          body |-> [file_id |-> file_id, status |-> "failed", downloadUrl |-> Null,
                    size |-> Null, processingTimeMs |-> processingTimeMs]]

\* the service starts in any environment
SvcInit == JobInit /\ ApiInit /\ DmInit /\ SvcIdle /\ env \in Envs

\* GET /health arrives: the handler awaits checkS3Health
HealthRequest ==
    /\ health.pc = "idle"
    /\ shutdown.server = "listening"
    /\ health' = [pc |-> "checking"]
    /\ UNCHANGED <<env, start, shutdown, notSvcVars>>

\* checkS3Health has settled and the handler answers
HealthAnswer(outcome) ==
    /\ health.pc = "checking"
    /\ LET answer == healthHandler(checkS3Health(env, outcome))
       IN  health' = [pc |-> "answered", outcome |-> outcome,
                      code |-> answer.code, body |-> answer.body]
    /\ UNCHANGED <<env, start, shutdown, notSvcVars>>

\* POST /v1/download/start arrives: a body the schema rejects is answered
\* 400 by the validator; otherwise the handler draws its delay and sleeps
StartRequest(file_id, k) ==
    /\ start.pc = "idle"
    /\ shutdown.server = "listening"
    /\ start' = IF ~DownloadStartRequestSchema(file_id)
                THEN [pc |-> "answered", by |-> "validator", file_id |-> file_id,
                      consulted |-> FALSE, code |-> 400, body |-> [success |-> FALSE]]
                ELSE [pc |-> "sleeping", file_id |-> file_id,
                      delayMs |-> getRandomDelay(env, k), consulted |-> FALSE]
    /\ UNCHANGED <<env, health, shutdown, notSvcVars>>

\* the sleep is over: the handler calls checkS3Availability
StartWake ==
    /\ start.pc = "sleeping"
    /\ start' = [start EXCEPT !.pc = "checking", !.consulted = TRUE]
    /\ UNCHANGED <<env, health, shutdown, notSvcVars>>

\* checkS3Availability has settled and the handler answers
StartAnswer(outcome, k, token) ==
    /\ start.pc = "checking"
    /\ LET s3Result == checkS3Availability(env, start.file_id, outcome, k)
           answer   == downloadStartHandler(start.file_id, s3Result, start.delayMs, token)
       IN  start' = [pc |-> "answered", by |-> "handler", file_id |-> start.file_id,
                     consulted |-> TRUE, s3Result |-> s3Result,
                     code |-> answer.code, body |-> answer.body]
    /\ UNCHANGED <<env, health, shutdown, notSvcVars>>

\* the next request to a route that has answered
SvcReset ==
    /\ \/ health.pc = "answered" /\ health' = [pc |-> "idle"] /\ UNCHANGED start
       \/ start.pc = "answered" /\ start' = [pc |-> "idle"] /\ UNCHANGED health
    /\ UNCHANGED <<env, shutdown, notSvcVars>>

\* a request is being handled: its connection is open
RequestInProgress == health.pc = "checking" \/ start.pc \in {"sleeping", "checking"}

\* gracefulShutdown(server)(signal): server.close(callback).  The server
\* stops listening; the callback waits for the server's close event.
gracefulShutdown(s, signal) ==
    [s EXCEPT !.signals = Append(@, signal),
              !.server = IF @ = "listening" THEN "closing" ELSE @,
              !.closeCallbacks = @ + 1]

\* the S3 client is destroyed in the close callback itself
closeCallbackDestroysS3(s) ==
    [s EXCEPT !.otelStarted = @ + 1, !.s3Destroyed = @ + 1]

\* the callback given to server.close: otelSDK.shutdown() is called and the
\* then / catch / finally handlers are attached to its promise
closeCallback(s) == [s EXCEPT !.otelStarted = @ + 1]

\* the close event calls every callback registered for it, once
RECURSIVE closeEvent(_)
closeEvent(s) ==
    IF s.closeCallbacks = 0 THEN s
    ELSE closeEvent(closeCallback([s EXCEPT !.closeCallbacks = @ - 1]))

\* the promise of one otelSDK.shutdown() call settles
otelSettled(s, ok) ==
    [s EXCEPT !.otelSettled = @ + 1,
              !.otelFailed = IF ok THEN @ ELSE @ + 1,
              !.finallyDue = @ + 1]

\* the finally handler: s3Client.destroy()
shutdownFinally(s) == [s EXCEPT !.finallyDue = @ - 1, !.s3Destroyed = @ + 1]

\* process.on("SIGTERM" | "SIGINT")
Signal(signal) ==
    /\ Len(shutdown.signals) < MaxSignals
    /\ shutdown' = gracefulShutdown(shutdown, signal)
    /\ UNCHANGED <<env, health, start, notSvcVars>>

\* the server emits close: it is not listening and no connection is open
\* (again after a later server.close on the closed server)
ServerClosed ==
    /\ shutdown.server # "listening"
    /\ shutdown.closeCallbacks > 0
    /\ ~RequestInProgress
    /\ shutdown' = closeEvent([shutdown EXCEPT !.server = "closed"])
    /\ UNCHANGED <<env, health, start, notSvcVars>>

\* an otelSDK.shutdown() promise is fulfilled (ok) or rejected
OtelShutdownSettles(ok) ==
    /\ shutdown.otelStarted > shutdown.otelSettled
    /\ shutdown' = otelSettled(shutdown, ok)
    /\ UNCHANGED <<env, health, start, notSvcVars>>

\* the finally handler of a settled shutdown promise runs
ShutdownFinally ==
    /\ shutdown.finallyDue > 0
    /\ shutdown' = shutdownFinally(shutdown)
    /\ UNCHANGED <<env, health, start, notSvcVars>>

SvcNext ==
    \/ HealthRequest
    \/ \E outcome \in S3Outcomes : HealthAnswer(outcome)
    \/ \E file_id \in StartFileIds, k \in 0 .. RandomSteps - 1 : StartRequest(file_id, k)
    \/ StartWake
    \/ \E outcome \in S3Outcomes, k \in 0 .. RandomSteps - 1, token \in UUIDs :
          StartAnswer(outcome, k, token)
    \/ SvcReset

SvcSpec == SvcInit /\ [][SvcNext]_vars

\* the service with its default environment, receiving requests and signals
ShutdownNext ==
    \/ SvcNext
    \/ \E signal \in {"SIGTERM", "SIGINT"} : Signal(signal)
    \/ ServerClosed
    \/ \E ok \in BOOLEAN : OtelShutdownSettles(ok)
    \/ ShutdownFinally

ShutdownSpec == Init /\ [][ShutdownNext]_vars

(* ============================ properties =============================== *)

Terminal == {"completed", "failed"}

\* the transitions of the job life cycle, staying put included
Forward(a, b) ==
    \/ a = b
    \/ a = "queued" /\ b = "processing"
    \/ a = "processing" /\ b \in Terminal

\* the keys of a job's results
Keys(job) == DOMAIN job.result.entries

\* the tokens of the download URLs in a job's results; tokens are drawn in
\* increasing order, so they date the runner steps
Tokens(job) == {job.result.entries[k].downloadUrl[4] : k \in Keys(job)}

\* position k of the job held by runner r has been processed
Processed(r, k) == runners[r].pc = "done" \/ k < runners[r].idx

\* the runner of job j is still waiting for the delay of the first file id
BeforeFirstDelay(j) ==
    \E r \in DOMAIN runners :
        runners[r].job = j /\ runners[r].pc = "await" /\ runners[r].idx = 1

IsCreation(resp) == resp.route \in {"initiate", "downloadInitiate"}
IsPoll(resp) == resp.route \in {"status", "result"}

\* C1: in every step, the status of every job either stays as it is or moves
\* along queued -> processing -> {completed, failed}; it never moves back.
C1_StatusMovesForward ==
    [][\A j \in DOMAIN jobs :
          j \in DOMAIN jobs' => Forward(jobs[j].status, jobs'[j].status)]_vars

\* a job has moved to completed while another one is still processing
C1_Witness ==
    \E a, b \in DOMAIN jobs :
        /\ jobs[a].status = "completed"
        /\ jobs[a].result.defined
        /\ jobs[b].status = "processing"

\* C2: once the status of a job is completed or failed, no step changes its
\* status or its results.
C2_TerminalIsFrozen ==
    [][\A j \in DOMAIN jobs :
          jobs[j].status \in Terminal =>
              /\ j \in DOMAIN jobs'
              /\ jobs'[j].status = jobs[j].status
              /\ jobs'[j].result = jobs[j].result]_vars

\* job a is completed, a runner step of job b has happened after a's last
\* step, and a has been polled since
C2_Witness ==
    \E a, b \in DOMAIN jobs :
        /\ a # b
        /\ jobs[a].status = "completed"
        /\ \E t \in Tokens(jobs[b]) : \A u \in Tokens(jobs[a]) : t > u
        /\ response.route = "result" /\ response.request = a /\ response.code = 200
        /\ response.body.status = "completed"

\* C3: the keys of a job's results are file ids of the job, and each key is
\* the file id of a position its runner has already processed.
C3_ResultKeysAreProcessedItems ==
    \A j \in DOMAIN jobs :
        /\ Keys(jobs[j]) \subseteq Range(jobs[j].fileIds)
        /\ \A key \in Keys(jobs[j]) :
              \E r \in DOMAIN runners :
                  /\ runners[r].job = j
                  /\ \E k \in DOMAIN jobs[j].fileIds :
                        jobs[j].fileIds[k] = key /\ Processed(r, k)

\* a job of two different file ids with the first processed, the second not
C3_Witness ==
    \E j \in DOMAIN jobs :
        /\ Len(jobs[j].fileIds) = 2
        /\ jobs[j].fileIds[1] # jobs[j].fileIds[2]
        /\ Keys(jobs[j]) = {jobs[j].fileIds[1]}

\* C4: a completed job with a non-empty file id list has a result entry for
\* exactly its file ids, each with a boolean available, and a result poll
\* answering completed shows all of them.
C4_CompletedHasAllResults ==
    /\ \A j \in DOMAIN jobs :
          (jobs[j].status = "completed" /\ Len(jobs[j].fileIds) >= 1) =>
              /\ jobs[j].result.defined
              /\ Keys(jobs[j]) = Range(jobs[j].fileIds)
              /\ \A k \in Keys(jobs[j]) : jobs[j].result.entries[k].available \in BOOLEAN
    /\ (response.route = "result" /\ response.code = 200
            /\ response.body.status = "completed"
            /\ Len(jobs[response.request].fileIds) >= 1) =>
          /\ response.body.result.defined
          /\ DOMAIN response.body.result.entries = Range(jobs[response.request].fileIds)

\* a result poll has answered completed for a job of two different file ids
C4_Witness ==
    /\ response.route = "result" /\ response.code = 200
    /\ response.body.status = "completed"
    /\ Cardinality(Range(jobs[response.request].fileIds)) = 2
    /\ Cardinality(DOMAIN response.body.result.entries) = 2

\* C5: a job id answered with 200 by POST /v1/download/initiate has a record
\* in the job store.
C5_ReturnedJobIdIsStored ==
    (IsCreation(response) /\ response.code = 200) =>
        response.body.jobId \in DOMAIN jobs

\* C6: the 200 response of a job creation carries the status queued.
C6_CreationAnswersQueued ==
    (IsCreation(response) /\ response.code = 200) =>
        response.body.status = "queued"

\* C7: while the delay of a job's first file id has not elapsed, the job is
\* queued or processing and has no result entry; this is what the creation
\* response and every poll made in that time show.
C7_NoWorkBeforeFirstDelay ==
    /\ \A j \in DOMAIN jobs :
          BeforeFirstDelay(j) =>
              /\ jobs[j].status \in {"queued", "processing"}
              /\ Keys(jobs[j]) = {}
    /\ (response.route = "initiate" /\ response.code = 200
            /\ BeforeFirstDelay(response.body.jobId)) =>
          response.body.status \in {"queued", "processing"}
    /\ (IsPoll(response) /\ response.code = 200 /\ BeforeFirstDelay(response.request)) =>
          /\ response.body.status \in {"queued", "processing"}
          /\ response.route = "result" => DOMAIN response.body.result.entries = {}

\* a result poll of a job whose first delay is still pending, while another
\* job has already produced a result
C7_Witness ==
    /\ response.route = "result" /\ response.code = 200
    /\ BeforeFirstDelay(response.request)
    /\ \E b \in DOMAIN jobs : Keys(jobs[b]) # {}

\* C8: a status or result poll for an id that is not in the store is answered
\* 404 with the error body, and a poll answered 200 is for a stored id.
C8_UnknownIdIsNotFound ==
    IsPoll(response) =>
        /\ response.request \notin DOMAIN jobs =>
              (response.code = 404 /\ response.body = [error |-> "Job not found"])
        /\ response.code = 200 => response.request \in DOMAIN jobs
        /\ response.code \in {200, 404}

\* an unknown id is polled while the store holds jobs
C8_Witness ==
    /\ IsPoll(response)
    /\ response.request \notin DOMAIN jobs
    /\ response.code = 404
    /\ DOMAIN jobs # {}

\* C9: a creation request with an empty file id list is answered 400 without
\* a job id, and no record and no runner exists for an empty list.
C9_EmptyListIsRejected ==
    /\ (IsCreation(response) /\ response.request = 0) =>
          (response.code = 400 /\ "jobId" \notin DOMAIN response.body)
    /\ \A j \in DOMAIN jobs : jobs[j].fileIds # <<>>
    /\ \A r \in DOMAIN runners :
          runners[r].job \in DOMAIN jobs /\ jobs[runners[r].job].fileIds # <<>>

\* an empty list has just been rejected by the route that creates jobs
C9_Witness ==
    /\ response.route = "initiate"
    /\ response.request = 0
    /\ response.code = 400
    /\ DOMAIN jobs # {}

\* C10: the store holds one record per creation, each under its own id, and
\* every creation's record is the one found under its id.
C10_CreationsHaveDistinctIds ==
    /\ Cardinality(DOMAIN jobs) = Len(runners)
    /\ \A r1, r2 \in DOMAIN runners :
          r1 # r2 => runners[r1].job # runners[r2].job
    /\ \A j \in DOMAIN jobs : jobs[j].jobId = j

\* as many jobs as the store may hold have been created
C10_Witness ==
    /\ Len(runners) = MaxJobs
    /\ Cardinality(DOMAIN jobs) = MaxJobs

\* how many positions of its job runner r has processed
ProcessedCount(r) ==
    IF runners[r].pc = "done" THEN Len(jobs[runners[r].job].fileIds) ELSE runners[r].idx - 1

\* C11: the file ids that have a result are exactly those of the first
\* positions of the job's list, as many as its runner has processed; the
\* runner waits for position k+1 only with every earlier position written.
C11_ResultsAreAPrefix ==
    \A r \in DOMAIN runners :
        LET job == jobs[runners[r].job]
        IN  /\ ProcessedCount(r) \in 0 .. Len(job.fileIds)
            /\ Keys(job) = {job.fileIds[k] : k \in 1 .. ProcessedCount(r)}

\* a job of two different file ids between its first and its second item
C11_Witness ==
    \E r \in DOMAIN runners :
        /\ runners[r].pc = "await" /\ runners[r].idx = 2
        /\ jobs[runners[r].job].fileIds[1] # jobs[runners[r].job].fileIds[2]
        /\ Keys(jobs[runners[r].job]) = {jobs[runners[r].job].fileIds[1]}

\* C12: a step of a runner changes no record but that of its own job, and
\* no download token is found in the results of two jobs.
C12_RunnerWritesOwnRecord ==
    [][/\ \A r \in DOMAIN runners :
             runners'[r] # runners[r] =>
                 \A b \in DOMAIN jobs \ {runners[r].job} :
                     b \in DOMAIN jobs' /\ jobs'[b] = jobs[b]
       /\ \A a, b \in DOMAIN jobs' :
             a # b => Tokens(jobs'[a]) \cap Tokens(jobs'[b]) = {}]_vars

\* two jobs naming the same file id, each with its own result for it
C12_Witness ==
    \E a, b \in DOMAIN jobs :
        /\ a # b
        /\ Keys(jobs[a]) \cap Keys(jobs[b]) # {}
        /\ Tokens(jobs[a]) # Tokens(jobs[b])

C14_StoreOnlyGrows ==
    [][DOMAIN jobs \subseteq DOMAIN jobs']_vars

\* the store is full and one of its jobs is completed
C14_Witness ==
    /\ Cardinality(DOMAIN jobs) = MaxJobs
    /\ \E j \in DOMAIN jobs : jobs[j].status = "completed"
    /\ \E j \in DOMAIN jobs : jobs[j].status = "processing"

\* the processJob invocations that hold job j
RunnersOf(rs, j) == {r \in DOMAIN rs : rs[r].job = j}

\* C19: every stored job has exactly one processJob invocation, and a step
\* that starts an invocation starts one, for a job that was not stored before.
C19_OneRunnerPerJob ==
    [][/\ \A j \in DOMAIN jobs' : Cardinality(RunnersOf(runners', j)) = 1
       /\ Len(runners') # Len(runners) =>
             /\ Len(runners') = Len(runners) + 1
             /\ runners'[Len(runners')].job \notin DOMAIN jobs]_vars

\* a running job has been polled while two invocations exist
C19_Witness ==
    /\ IsPoll(response) /\ response.code = 200
    /\ Len(runners) = 2
    /\ \E r \in DOMAIN runners : runners[r].job = response.request /\ runners[r].pc = "await"

\* C20: no job in the store has status failed.
C20_NoJobFails ==
    \A j \in DOMAIN jobs : jobs[j].status # "failed"

\* a job is completed although one of its file ids is unavailable
C20_Witness ==
    \E j \in DOMAIN jobs :
        /\ jobs[j].status = "completed"
        /\ \E k \in Keys(jobs[j]) : ~jobs[j].result.entries[k].available

\* C15: no request is sent again more than MAX_RETRIES times.
C15_AtMostMaxRetries ==
    \A q \in 1 .. MaxRequests : requests[q].resends <= MAX_RETRIES

StoragePasses(e, outcome) ==
    \/ e.S3_BUCKET_NAME = ""
    \/ outcome.ok
    \/ outcome.isError /\ outcome.name = "NotFound"

C21_PollIsPureLookup ==
    [][(IsPoll(response') /\ response' # response) =>
           (jobs' = jobs /\ runners' = runners /\ issued' = issued)]_vars

\* a completed job has been polled for its result while another job is
\* still being processed
C21_Witness ==
    /\ response.route = "result" /\ response.code = 200
    /\ jobs[response.request].status = "completed"
    /\ \E b \in DOMAIN jobs : jobs[b].status = "processing"

\* C25: no record of the store is queued, and no poll is answered with the
\* status queued.
C25_NoPollSeesQueued ==
    /\ \A j \in DOMAIN jobs : jobs[j].status # "queued"
    /\ (IsPoll(response) /\ response.code = 200) => response.body.status # "queued"

\* a status poll made before the first delay of the job has elapsed was
\* answered processing
C25_Witness ==
    /\ response.route = "status" /\ response.code = 200
    /\ BeforeFirstDelay(response.request)
    /\ response.body.status = "processing"

\* C26: a result entry, once written, is never changed by a later step.
C26_EntriesAreWrittenOnce ==
    [][\A j \in DOMAIN jobs : \A k \in Keys(jobs[j]) :
           j \in DOMAIN jobs' /\ k \in Keys(jobs'[j])
               /\ jobs'[j].result.entries[k] = jobs[j].result.entries[k]]_vars

\* C27: a result entry has a downloadUrl only when its available flag is true.
C27_UrlOnlyWhenAvailable ==
    \A j \in DOMAIN jobs : \A k \in Keys(jobs[j]) :
        "downloadUrl" \in DOMAIN jobs[j].result.entries[k] =>
            jobs[j].result.entries[k].available

\* C28: the result keys of a job in the store never shrink, and a result poll
\* answers with exactly the keys the store holds at that time; so of two
\* result polls of one job the later sees a superset of what the earlier saw.
C28_PolledProgressIsMonotone ==
    [][/\ \A j \in DOMAIN jobs : j \in DOMAIN jobs' /\ Keys(jobs[j]) \subseteq Keys(jobs'[j])
       /\ (response' # response /\ response'.route = "result" /\ response'.code = 200) =>
             DOMAIN response'.body.result.entries = Keys(jobs'[response'.request])]_vars

\* the last result poll of a job saw one key, and the store has since gained
\* a second key for that job
C28_Witness ==
    /\ response.route = "result" /\ response.code = 200
    /\ Cardinality(DOMAIN response.body.result.entries) = 1
    /\ Cardinality(Keys(jobs[response.request])) = 2

\* the statuses the error interceptor retries
Retried == {429, 503, 504}

\* C22: a request that fails without a response or with a status other than
\* 429, 503 and 504 is rejected in that step: it is not sent again and the
\* retry counter keeps its value.
C22_OtherFailuresAreRejected ==
    [][\A q \in 1 .. MaxRequests :
           (/\ requests[q].state = "inflight"
            /\ requests'[q].state \in {"backoff", "rejected"}
            /\ requests'[q].status \notin Retried) =>
               /\ requests'[q].state = "rejected"
               /\ requests'[q].resends = requests[q].resends
               /\ retryCount' = retryCount]_vars

\* a request was rejected on a network error, never sent again, while the
\* counter stands above 0 for another request that waits for its backoff
C22_Witness ==
    \E q, o \in 1 .. MaxRequests :
        /\ requests[q].state = "rejected" /\ requests[q].status = 0
        /\ requests[q].resends = 0
        /\ requests[o].state = "backoff"
        /\ retryCount > 0

\* C29: a request rejected on 429, 503 or 504 has been retried at least once.
C29_FirstFailureIsRetried ==
    \A q \in 1 .. MaxRequests :
        (requests[q].state = "rejected" /\ requests[q].status \in Retried) =>
            requests[q].resends >= 1

\* C23: the delay drawn for a request is 0 when the delay is disabled, and
\* otherwise lies between DOWNLOAD_DELAY_MIN_MS and DOWNLOAD_DELAY_MAX_MS.
C23_DelayWithinBounds ==
    start.pc = "sleeping" =>
        IF ~env.DOWNLOAD_DELAY_ENABLED
        THEN start.delayMs = 0
        ELSE /\ env.DOWNLOAD_DELAY_MIN_MS <= start.delayMs
             /\ start.delayMs <= env.DOWNLOAD_DELAY_MAX_MS

\* C24: otelSDK.shutdown() is called only once the HTTP server has closed,
\* and the S3 client is destroyed only by the finally handler of a shutdown
\* promise that has settled.
C24_ShutdownStepsInOrder ==
    /\ shutdown.otelStarted > 0 => shutdown.server = "closed"
    /\ shutdown.s3Destroyed > 0 => shutdown.otelSettled > 0
    /\ shutdown.s3Destroyed <= shutdown.otelSettled
    /\ shutdown.otelSettled <= shutdown.otelStarted

\* the S3 client has been destroyed after an OpenTelemetry shutdown that
\* failed, in a process that has answered a download request
C24_Witness ==
    /\ shutdown.s3Destroyed = 1
    /\ shutdown.otelFailed = 1
    /\ shutdown.server = "closed"
    /\ start.pc = "answered" /\ start.by = "handler"

====
